---- MODULE Spec2Model ----
(***************************************************************************)
(* The session-scoped conversation / feedback orchestration of the AI      *)
(* Communication Skills Coach: the `chat` and `feedback` edge functions,   *)
(* the rows of the session, message and feedback tables they read and      *)
(* write, the ChatInterface component that creates the message rows, the   *)
(* FeedbackDisplay component that asks for the feedback, and the           *)
(* navigation of AppContent between their views.                           *)
(***************************************************************************)
EXTENDS Integers, Sequences, FiniteSets, TLC

\* ------------------------------------------------------------- bounds

\* Direct HTTP invocations of the two functions in one behaviour.
MaxDirect == 2
\* Message rows the ChatInterface may insert in one behaviour.
MaxMsgs == 3

\* ------------------------------------------------------------- identifiers

SessionIds == {"s1", "s2"}
UiReq == 0
DirectReqs == 1..MaxDirect
Reqs == {UiReq} \cup DirectReqs

\* ------------------------------------------------------------- JS values

Undefined == [t |-> "undefined", v |-> ""]
JsNull == [t |-> "null", v |-> ""]
Num(n) == [t |-> "num", v |-> n]
Str(s) == [t |-> "str", v |-> s]
SyntaxError == [t |-> "SyntaxError", v |-> ""]
EmptyFields == [k \in {} |-> Undefined]
Obj(f) == [t |-> "obj", f |-> f]

\* ------------------------------------------------------------- model output text
\* The text of a completion is a sequence of lexical tokens.

LB == [t |-> "{", v |-> ""]
RB == [t |-> "}", v |-> ""]
COLON == [t |-> ":", v |-> ""]
COMMA == [t |-> ",", v |-> ""]
Word(w) == [t |-> "word", v |-> w]

Member(k, val) == <<Str(k), COLON, val>>

GoodText ==
    <<LB>> \o Member("summary", Str("ok")) \o <<COMMA>>
           \o Member("clarity", Num("4")) \o <<COMMA>>
           \o Member("empathy", Num("3")) \o <<COMMA>>
           \o Member("assertiveness", Num("5")) \o <<COMMA>>
           \o Member("recommendations", Str("a b c")) \o <<RB>>
WrappedText == <<Word("Here"), Word("is")>> \o GoodText \o <<Word("Hope")>>
NoScoresText ==
    <<LB>> \o Member("summary", Str("ok")) \o <<COMMA>>
           \o Member("recommendations", Str("a b c")) \o <<RB>>
\* The good object cut off before its closing brace.
TruncatedText == SubSeq(GoodText, 1, Len(GoodText) - 1)
NullText == <<JsNull>>
EmptyObjectText == <<LB, RB>>

FeedbackTexts ==
    {GoodText, WrappedText, TruncatedText, NoScoresText, NullText, EmptyObjectText}
ChatReplies == {"Hello"}
UpstreamBodies == {"rate limit", "quota"}

\* JSON.parse of a token sequence: a scalar literal, or a flat object
\* "{" [ string ":" scalar { "," string ":" scalar } ] "}"; anything else
\* is a SyntaxError.  A repeated key keeps its last value.
IsScalar(tok) == tok.t \in {"str", "num", "null"}

RECURSIVE ParseMembers(_, _, _)
ParseMembers(toks, i, fields) ==
    IF i + 3 > Len(toks) THEN SyntaxError
    ELSE IF ~(toks[i].t = "str" /\ toks[i + 1] = COLON /\ IsScalar(toks[i + 2]))
    THEN SyntaxError
    ELSE LET k == toks[i].v
             f2 == [x \in (DOMAIN fields) \cup {k} |->
                        IF x = k THEN toks[i + 2] ELSE fields[x]]
         IN  IF toks[i + 3] = RB
             THEN IF i + 3 = Len(toks) THEN Obj(f2) ELSE SyntaxError
             ELSE IF toks[i + 3] = COMMA THEN ParseMembers(toks, i + 4, f2)
             ELSE SyntaxError

JSONParse(toks) ==
    IF Len(toks) = 1 /\ IsScalar(toks[1]) THEN toks[1]
    ELSE IF Len(toks) >= 2 /\ toks[1] = LB
    THEN IF toks[2] = RB
         THEN IF Len(toks) = 2 THEN Obj(EmptyFields) ELSE SyntaxError
         ELSE ParseMembers(toks, 2, EmptyFields)
    ELSE SyntaxError

\* Property access value.key of JavaScript; on null or undefined it throws.
Throws(val) == val.t \in {"null", "undefined"}
Get(val, key) ==
    IF val.t = "obj" /\ key \in DOMAIN val.f THEN val.f[key] ELSE Undefined

\* ------------------------------------------------------------- state

VARIABLES
    openaiKey,  \* whether OPENAI_API_KEY is set in the functions' environment
    session,    \* the session table: one row (or none) per identifier
    message,    \* the message table, in created_at order
    feedback,   \* the feedback table, in id order
    now,        \* the wall clock read by new Date()
    inv,        \* the invocations of the two edge functions
    ci,         \* the ChatInterface component of the browser tab
    app,        \* AppContent: the view, the current session, pending handlers
    fd          \* the FeedbackDisplay component of the browser tab

vars == <<openaiKey, session, message, feedback, now, inv, ci, app, fd>>

\* ------------------------------------------------------------- rows

NoSession == [exists |-> FALSE, status |-> "", ended_at |-> 0]
NewSession == [exists |-> TRUE, status |-> "active", ended_at |-> 0]
MessageRow(sid, role, content) ==
    [session_id |-> sid, role |-> role, content |-> content]
NoRow ==
    [id |-> 0, session_id |-> "", summary |-> Undefined,
     scores |-> EmptyFields, recommendations |-> Undefined]

\* .eq('session_id', sid).order('created_at') with select('role, content')
MessagesOf(sid) ==
    LET OfSession(m) == m.session_id = sid
        rows == SelectSeq(message, OfSession)
    IN  [i \in 1..Len(rows) |-> [role |-> rows[i].role, content |-> rows[i].content]]
FeedbackOf(sid) ==
    LET OfSession(f) == f.session_id = sid
    IN  SelectSeq(feedback, OfSession)

\* ------------------------------------------------------------- responses

\* const corsHeaders, the same object in both functions.
corsHeaders ==
    [allowOrigin |-> "*",
     allowMethods |-> "GET, POST, PUT, DELETE, OPTIONS",
     allowHeaders |-> "Content-Type, Authorization, X-Client-Info, Apikey"]
NoHeaders == [allowOrigin |-> "", allowMethods |-> "", allowHeaders |-> ""]

NoResp ==
    [status |-> 0, cors |-> NoHeaders, error |-> "", message |-> "", record |-> NoRow]
Preflight ==
    [status |-> 200, cors |-> corsHeaders, error |-> "", message |-> "", record |-> NoRow]
\* ErrorResponse with the status telling a client's mistake from a server's.
ErrorResponseByCause(msg) ==
    [status |-> IF msg \in {"Session not found", "Unexpected end of JSON input",
                            "Not enough conversation for feedback"}
                THEN 400 ELSE 500,
     cors |-> corsHeaders,
     error |-> IF msg = "" THEN "Internal server error" ELSE msg,
     message |-> "", record |-> NoRow]
\* catch (error): status 500, { error: error.message || 'Internal server error' }
ErrorResponse(msg) ==
    [status |-> 500, cors |-> corsHeaders,
     error |-> IF msg = "" THEN "Internal server error" ELSE msg,
     message |-> "", record |-> NoRow]
ChatResponse(text) ==
    [status |-> 200, cors |-> corsHeaders, error |-> "", message |-> text, record |-> NoRow]
FeedbackResponse(row) ==
    [status |-> 200, cors |-> corsHeaders, error |-> "", message |-> "", record |-> row]

KeyMissing == "OpenAI API key not configured"
SessionNotFound == "Session not found"
NotEnough == "Not enough conversation for feedback"
\* UpstreamError with the upstream body left out of the message.
UpstreamErrorGeneric(body) == "OpenAI API error"
\* `OpenAI API error: ${errorText}`
UpstreamError(body) == "OpenAI API error: " \o body
BodySyntaxError == "Unexpected end of JSON input"
FetchFailed == "error sending request"
ParseFailed == "Unexpected token in JSON"
NullAccess == "Cannot read properties of null"
StoreFailed == "store request failed"
NotNullViolation == "null value violates not-null constraint"

\* ------------------------------------------------------------- invocations

NoMessages == [isNull |-> TRUE, rows |-> <<>>]
\* What the model-inference API answered to the invocation's call: nothing
\* (no call yet, or the fetch itself failed), a success, or a non-success
\* status with its body.
NoAnswer == [answered |-> FALSE, ok |-> FALSE, errorText |-> ""]
OkAnswer == [answered |-> TRUE, ok |-> TRUE, errorText |-> ""]
ErrorAnswer(body) == [answered |-> TRUE, ok |-> FALSE, errorText |-> body]
Idle ==
    [fn |-> "none", method |-> "", bodyOk |-> FALSE,
     session_id |-> "", user_message |-> "", is_initial |-> FALSE,
     pc |-> "idle", messages |-> NoMessages, upstream |-> NoAnswer,
     storeError |-> "", openaiMessages |-> <<>>, conversationText |-> <<>>,
     feedbackJson |-> Undefined,
     feedback |-> NoRow, resp |-> NoResp, ops |-> <<>>]

Request(fn, method, bodyOk, sid, um, ii) ==
    [Idle EXCEPT !.fn = fn, !.method = method, !.bodyOk = bodyOk,
                 !.session_id = sid, !.user_message = um, !.is_initial = ii]

\* The handler returns: the response is sent and its locals are gone (the
\* request's method and session identifier stay on record).
Done(rec, resp) ==
    [rec EXCEPT !.pc = "done", !.resp = resp, !.messages = NoMessages,
                !.openaiMessages = <<>>, !.conversationText = <<>>,
                !.feedbackJson = Undefined, !.feedback = NoRow,
                !.user_message = "", !.is_initial = FALSE]
Logged(rec, op) == [rec EXCEPT !.ops = Append(@, op)]
\* The { error } a store call hands back to the invocation; the last one is
\* kept on record, whatever the handler does with it.
StoreResult(rec, fails, text) ==
    IF fails THEN [rec EXCEPT !.storeError = text] ELSE rec

\* ------------------------------------------------------------- chat function

\* ChatEntry with req.json() awaited before the key is looked at.
ChatEntryBodyFirst(rec) ==
    IF rec.method = "OPTIONS" THEN Done(rec, Preflight)
    ELSE IF ~rec.bodyOk THEN Done(rec, ErrorResponse(BodySyntaxError))
    ELSE IF ~openaiKey THEN Done(rec, ErrorResponse(KeyMissing))
    ELSE [rec EXCEPT !.pc = "session_read"]

\* The synchronous head of the handler: the OPTIONS branch, the key check
\* and req.json(), up to the session read.
ChatEntry(rec) ==
    IF rec.method = "OPTIONS" THEN Done(rec, Preflight)
    ELSE IF ~openaiKey THEN Done(rec, ErrorResponse(KeyMissing))
    ELSE IF ~rec.bodyOk THEN Done(rec, ErrorResponse(BodySyntaxError))
    ELSE [rec EXCEPT !.pc = "session_read"]

\* A direct HTTP request to the chat endpoint.
ChatInvoke(r) ==
    /\ r \in DirectReqs
    /\ inv[r].pc = "idle"
    /\ r = 1 \/ inv[r - 1].pc # "idle"
    /\ \E method \in {"POST", "OPTIONS"} :
          \/ /\ method = "OPTIONS"
             /\ inv' = [inv EXCEPT ![r] =
                   ChatEntry(Request("chat", method, FALSE, "", "", FALSE))]
          \/ /\ method = "POST"
             /\ inv' = [inv EXCEPT ![r] =
                   ChatEntry(Request("chat", method, FALSE, "", "", FALSE))]
          \/ /\ method = "POST"
             /\ \E sid \in SessionIds, um \in {"", "hi"}, ii \in BOOLEAN :
                   inv' = [inv EXCEPT ![r] =
                       ChatEntry(Request("chat", method, TRUE, sid, um, ii))]
    /\ UNCHANGED <<openaiKey, session, message, feedback, now, ci, app, fd>>

\* supabase.from('session').select(...).eq('id', session_id).single()
ChatSessionRead(r) ==
    /\ inv[r].fn = "chat"
    /\ inv[r].pc = "session_read"
    /\ \E fails \in BOOLEAN :
          LET rec == StoreResult(Logged(inv[r], "session_read"), fails, StoreFailed)
              found == ~fails /\ session[rec.session_id].exists
          IN  inv' = [inv EXCEPT ![r] =
                  IF found THEN [rec EXCEPT !.pc = "message_read"]
                  ELSE Done(rec, ErrorResponse(SessionNotFound))]
    /\ UNCHANGED <<openaiKey, session, message, feedback, now, ci, app, fd>>

\* The last line of systemPrompt.
IntroduceYourself ==
    "Start the conversation by introducing yourself and the scenario context."
RespondInCharacter == "Respond as your character would in this situation."
SystemPrompt(is_initial) ==
    [role |-> "system",
     content |-> IF is_initial THEN IntroduceYourself ELSE RespondInCharacter]

\* OpenaiMessages with the request's message pushed whatever is_initial says.
OpenaiMessagesAlwaysPush(data, user_message, is_initial) ==
    LET conversationHistory == IF data.isNull THEN <<>> ELSE data.rows
    IN  <<SystemPrompt(is_initial)>>
        \o [i \in 1..Len(conversationHistory) |->
               [role |-> IF conversationHistory[i].role = "assistant"
                         THEN "assistant" ELSE "user",
                content |-> conversationHistory[i].content]]
        \o (IF user_message # ""
            THEN <<[role |-> "user", content |-> user_message]>> ELSE <<>>)

\* conversationHistory = messages || [], then openaiMessages: the system
\* prompt, the mapped history, and the push of user_message.
OpenaiMessages(data, user_message, is_initial) ==
    LET conversationHistory == IF data.isNull THEN <<>> ELSE data.rows
    IN  <<SystemPrompt(is_initial)>>
        \o [i \in 1..Len(conversationHistory) |->
               [role |-> IF conversationHistory[i].role = "assistant"
                         THEN "assistant" ELSE "user",
                content |-> conversationHistory[i].content]]
        \o (IF ~is_initial /\ user_message # ""
            THEN <<[role |-> "user", content |-> user_message]>> ELSE <<>>)

\* supabase.from('message').select('role, content')...; a failed read
\* yields data null, which the handler replaces by the empty history; then
\* the prompt is assembled, up to the fetch.
ChatMessageRead(r) ==
    /\ inv[r].fn = "chat"
    /\ inv[r].pc = "message_read"
    /\ \E fails \in BOOLEAN :
          LET rec == StoreResult(Logged(inv[r], "message_read"), fails, StoreFailed)
              data == IF fails THEN NoMessages
                      ELSE [isNull |-> FALSE, rows |-> MessagesOf(rec.session_id)]
          IN  inv' = [inv EXCEPT ![r] =
                  [rec EXCEPT !.pc = "openai", !.messages = data,
                              !.openaiMessages =
                                  OpenaiMessages(data, rec.user_message,
                                                 rec.is_initial)]]
    /\ UNCHANGED <<openaiKey, session, message, feedback, now, ci, app, fd>>

\* ChatCompletion with the reply also stored as the assistant's message row.
ChatCompletionPersists(r) ==
    /\ inv[r].fn = "chat"
    /\ inv[r].pc = "openai"
    /\ LET rec == Logged(inv[r], "openai")
       IN  \/ /\ inv' = [inv EXCEPT ![r] = Done(rec, ErrorResponse(FetchFailed))]
              /\ UNCHANGED message
           \/ \E text \in ChatReplies :
                 /\ inv' = [inv EXCEPT ![r] =
                        Done([rec EXCEPT !.upstream = OkAnswer], ChatResponse(text))]
                 /\ message' = Append(message,
                        MessageRow(rec.session_id, "assistant", text))
    /\ UNCHANGED <<openaiKey, session, feedback, now, ci, app, fd>>

\* fetch(chat/completions) and the response: the only thing the handler
\* does after it is to send the reply or the error.
ChatCompletion(r) ==
    /\ inv[r].fn = "chat"
    /\ inv[r].pc = "openai"
    /\ LET rec == Logged(inv[r], "openai")
       IN  \/ inv' = [inv EXCEPT ![r] = Done(rec, ErrorResponse(FetchFailed))]
           \/ \E body \in UpstreamBodies :
                 inv' = [inv EXCEPT ![r] =
                     Done([rec EXCEPT !.upstream = ErrorAnswer(body)],
                          ErrorResponse(UpstreamError(body)))]
           \/ \E text \in ChatReplies :
                 inv' = [inv EXCEPT ![r] =
                     Done([rec EXCEPT !.upstream = OkAnswer], ChatResponse(text))]
    /\ UNCHANGED <<openaiKey, session, message, feedback, now, ci, app, fd>>

\* ------------------------------------------------------------- feedback function

\* FeedbackEntry with the key looked at before the method.
FeedbackEntryKeyFirst(rec) ==
    IF ~openaiKey THEN Done(rec, ErrorResponse(KeyMissing))
    ELSE IF rec.method = "OPTIONS" THEN Done(rec, Preflight)
    ELSE IF ~rec.bodyOk THEN Done(rec, ErrorResponse(BodySyntaxError))
    ELSE [rec EXCEPT !.pc = "session_read"]

FeedbackEntry(rec) ==
    IF rec.method = "OPTIONS" THEN Done(rec, Preflight)
    ELSE IF ~openaiKey THEN Done(rec, ErrorResponse(KeyMissing))
    ELSE IF ~rec.bodyOk THEN Done(rec, ErrorResponse(BodySyntaxError))
    ELSE [rec EXCEPT !.pc = "session_read"]

\* A direct HTTP request to the feedback endpoint.
FeedbackInvoke(r) ==
    /\ r \in DirectReqs
    /\ inv[r].pc = "idle"
    /\ r = 1 \/ inv[r - 1].pc # "idle"
    /\ \E method \in {"POST", "OPTIONS"} :
          \/ /\ method = "OPTIONS"
             /\ inv' = [inv EXCEPT ![r] =
                   FeedbackEntry(Request("feedback", method, FALSE, "", "", FALSE))]
          \/ /\ method = "POST"
             /\ inv' = [inv EXCEPT ![r] =
                   FeedbackEntry(Request("feedback", method, FALSE, "", "", FALSE))]
          \/ /\ method = "POST"
             /\ \E sid \in SessionIds :
                   inv' = [inv EXCEPT ![r] =
                       FeedbackEntry(Request("feedback", method, TRUE, sid, "", FALSE))]
    /\ UNCHANGED <<openaiKey, session, message, feedback, now, ci, app, fd>>

\* FeedbackSessionRead without the !session half of its check.
FeedbackSessionReadUnchecked(r) ==
    /\ inv[r].fn = "feedback"
    /\ inv[r].pc = "session_read"
    /\ \E fails \in BOOLEAN :
          LET rec == StoreResult(Logged(inv[r], "session_read"), fails, StoreFailed)
          IN  inv' = [inv EXCEPT ![r] =
                  IF ~fails THEN [rec EXCEPT !.pc = "message_read"]
                  ELSE Done(rec, ErrorResponse(SessionNotFound))]
    /\ UNCHANGED <<openaiKey, session, message, feedback, now, ci, app, fd>>

FeedbackSessionRead(r) ==
    /\ inv[r].fn = "feedback"
    /\ inv[r].pc = "session_read"
    /\ \E fails \in BOOLEAN :
          LET rec == StoreResult(Logged(inv[r], "session_read"), fails, StoreFailed)
              found == ~fails /\ session[rec.session_id].exists
          IN  inv' = [inv EXCEPT ![r] =
                  IF found THEN [rec EXCEPT !.pc = "message_read"]
                  ELSE Done(rec, ErrorResponse(SessionNotFound))]
    /\ UNCHANGED <<openaiKey, session, message, feedback, now, ci, app, fd>>

\* EnoughConversation with the length test off by one.
EnoughConversationOffByOne(data) == ~data.isNull /\ Len(data.rows) >= 1

\* if (!messages || messages.length < 2) throw ...
EnoughConversation(data) == ~data.isNull /\ Len(data.rows) >= 2

\* messages.map(m => `${m.role === 'user' ? 'User' : 'Coach'}: ${m.content}`)
\* .join('\n\n'): the transcript as the sequence of its lines.
ConversationText(rows) ==
    [i \in 1..Len(rows) |->
        [speaker |-> IF rows[i].role = "user" THEN "User" ELSE "Coach",
         text |-> rows[i].content]]

\* The message read, the length test and the rendering of the transcript
\* for the evaluation prompt, up to the fetch.
FeedbackMessageRead(r) ==
    /\ inv[r].fn = "feedback"
    /\ inv[r].pc = "message_read"
    /\ \E fails \in BOOLEAN :
          LET rec == StoreResult(Logged(inv[r], "message_read"), fails, StoreFailed)
              data == IF fails THEN NoMessages
                      ELSE [isNull |-> FALSE, rows |-> MessagesOf(rec.session_id)]
              read == [rec EXCEPT !.messages = data]
          IN  inv' = [inv EXCEPT ![r] =
                  IF EnoughConversation(data)
                  THEN [read EXCEPT !.pc = "openai",
                                    !.conversationText = ConversationText(data.rows)]
                  ELSE Done(read, ErrorResponse(NotEnough))]
    /\ UNCHANGED <<openaiKey, session, message, feedback, now, ci, app, fd>>

\* ParsedFeedback with the SyntaxError of JSON.parse escaping the handler.
ParsedFeedbackUncaught(rec, text) ==
    LET json == JSONParse(text)
    IN  IF json.t = "SyntaxError" THEN [rec EXCEPT !.pc = "crashed"]
        ELSE IF Throws(json) THEN Done(rec, ErrorResponse(NullAccess))
        ELSE [rec EXCEPT !.pc = "insert", !.feedbackJson = json,
                         !.messages = NoMessages, !.conversationText = <<>>]

\* JSON.parse(feedbackText) and the reads of its fields.
ParsedFeedback(rec, text) ==
    LET json == JSONParse(text)
    IN  IF json.t = "SyntaxError" THEN Done(rec, ErrorResponse(ParseFailed))
        ELSE IF Throws(json) THEN Done(rec, ErrorResponse(NullAccess))
        ELSE [rec EXCEPT !.pc = "insert", !.feedbackJson = json,
                         !.messages = NoMessages, !.conversationText = <<>>]

\* FeedbackCompletion with one more attempt after a fetch that failed.
FeedbackCompletionRetries(r) ==
    /\ inv[r].fn = "feedback"
    /\ inv[r].pc = "openai"
    /\ LET rec == Logged(inv[r], "openai")
       IN  \/ inv' = [inv EXCEPT ![r] =
                  IF Len(rec.ops) < 4 THEN rec
                  ELSE Done(rec, ErrorResponse(FetchFailed))]
           \/ \E body \in UpstreamBodies :
                 inv' = [inv EXCEPT ![r] =
                     Done([rec EXCEPT !.upstream = ErrorAnswer(body)],
                          ErrorResponse(UpstreamError(body)))]
           \/ \E text \in FeedbackTexts :
                 inv' = [inv EXCEPT ![r] =
                     ParsedFeedback([rec EXCEPT !.upstream = OkAnswer], text)]
    /\ UNCHANGED <<openaiKey, session, message, feedback, now, ci, app, fd>>

\* fetch(chat/completions) with the evaluation prompt, the response, and the
\* parse of the completion text.
FeedbackCompletion(r) ==
    /\ inv[r].fn = "feedback"
    /\ inv[r].pc = "openai"
    /\ LET rec == Logged(inv[r], "openai")
       IN  \/ inv' = [inv EXCEPT ![r] = Done(rec, ErrorResponse(FetchFailed))]
           \/ \E body \in UpstreamBodies :
                 inv' = [inv EXCEPT ![r] =
                     Done([rec EXCEPT !.upstream = ErrorAnswer(body)],
                          ErrorResponse(UpstreamError(body)))]
           \/ \E text \in FeedbackTexts :
                 inv' = [inv EXCEPT ![r] =
                     ParsedFeedback([rec EXCEPT !.upstream = OkAnswer], text)]
    /\ UNCHANGED <<openaiKey, session, message, feedback, now, ci, app, fd>>

\* The scores object and the inserted row as JSON.stringify sends them: a
\* property whose value is undefined is left out.
ScoreKeys == {"clarity", "empathy", "assertiveness"}
\* Scores with clarity and empathy read from each other's field.
ScoresSwapped(json) ==
    LET From(k) == IF k = "clarity" THEN "empathy"
                   ELSE IF k = "empathy" THEN "clarity" ELSE k
    IN  [k \in {x \in ScoreKeys : Get(json, From(x)) # Undefined} |->
            Get(json, From(k))]
Scores(json) ==
    [k \in {x \in ScoreKeys : Get(json, x) # Undefined} |-> Get(json, k)]
FeedbackRow(id, sid, json) ==
    [id |-> id, session_id |-> sid, summary |-> Get(json, "summary"),
     scores |-> Scores(json), recommendations |-> Get(json, "recommendations")]

\* summary text NOT NULL, recommendations text NOT NULL
NotNullOk(row) ==
    /\ row.summary.t \notin {"undefined", "null"}
    /\ row.recommendations.t \notin {"undefined", "null"}

\* FeedbackInsert against a table with a unique constraint on session_id.
FeedbackInsertUnique(r) ==
    /\ inv[r].fn = "feedback"
    /\ inv[r].pc = "insert"
    /\ LET rec == Logged(inv[r], "feedback_insert")
           row == FeedbackRow(Len(feedback) + 1, rec.session_id, rec.feedbackJson)
       IN  IF FeedbackOf(rec.session_id) # <<>> \/ ~NotNullOk(row)
           THEN /\ inv' = [inv EXCEPT ![r] =
                      Done(StoreResult(rec, TRUE, "duplicate key value"),
                           ErrorResponse("duplicate key value"))]
                /\ UNCHANGED feedback
           ELSE /\ feedback' = Append(feedback, row)
                /\ inv' = [inv EXCEPT ![r] =
                      [rec EXCEPT !.pc = "update", !.feedback = row,
                                  !.feedbackJson = Undefined]]
    /\ UNCHANGED <<openaiKey, session, message, now, ci, app, fd>>

\* FeedbackInsert with feedbackError not looked at: on to the update.
FeedbackInsertErrorIgnored(r) ==
    /\ inv[r].fn = "feedback"
    /\ inv[r].pc = "insert"
    /\ \E fails \in BOOLEAN :
          LET rec == Logged(inv[r], "feedback_insert")
              row == FeedbackRow(Len(feedback) + 1, rec.session_id, rec.feedbackJson)
          IN  IF fails \/ ~NotNullOk(row)
              THEN /\ inv' = [inv EXCEPT ![r] =
                         [StoreResult(rec, TRUE, StoreFailed) EXCEPT
                             !.pc = "update", !.feedbackJson = Undefined]]
                   /\ UNCHANGED feedback
              ELSE /\ feedback' = Append(feedback, row)
                   /\ inv' = [inv EXCEPT ![r] =
                         [rec EXCEPT !.pc = "update", !.feedback = row,
                                     !.feedbackJson = Undefined]]
    /\ UNCHANGED <<openaiKey, session, message, now, ci, app, fd>>

\* supabase.from('feedback').insert({...}).select().single()
FeedbackInsert(r) ==
    /\ inv[r].fn = "feedback"
    /\ inv[r].pc = "insert"
    /\ \E fails \in BOOLEAN :
          LET rec == Logged(inv[r], "feedback_insert")
              row == FeedbackRow(Len(feedback) + 1, rec.session_id, rec.feedbackJson)
          IN  IF fails
              THEN /\ inv' = [inv EXCEPT ![r] =
                         Done(StoreResult(rec, TRUE, StoreFailed),
                              ErrorResponse(StoreFailed))]
                   /\ UNCHANGED feedback
              ELSE IF ~NotNullOk(row)
              THEN /\ inv' = [inv EXCEPT ![r] =
                         Done(StoreResult(rec, TRUE, NotNullViolation),
                              ErrorResponse(NotNullViolation))]
                   /\ UNCHANGED feedback
              ELSE /\ feedback' = Append(feedback, row)
                   /\ inv' = [inv EXCEPT ![r] =
                         [rec EXCEPT !.pc = "update", !.feedback = row,
                                     !.feedbackJson = Undefined]]
    /\ UNCHANGED <<openaiKey, session, message, now, ci, app, fd>>

\* CompletedSession with the end timestamp of a completed session kept.
CompletedSessionKeepsEnd(row, time) ==
    IF row.status = "completed" THEN row
    ELSE [row EXCEPT !.status = "completed", !.ended_at = time]

\* .update({ status: 'completed', ended_at: new Date().toISOString() })
CompletedSession(row, time) ==
    [row EXCEPT !.status = "completed", !.ended_at = time]

\* FeedbackUpdate with the error of the update looked at and thrown.
FeedbackUpdateChecked(r) ==
    /\ inv[r].fn = "feedback"
    /\ inv[r].pc = "update"
    /\ \E fails \in BOOLEAN :
          LET rec == StoreResult(Logged(inv[r], "session_update"), fails, StoreFailed)
              sid == rec.session_id
          IN  /\ session' =
                    IF fails THEN session
                    ELSE [session EXCEPT ![sid] = CompletedSession(@, now)]
              /\ inv' = [inv EXCEPT ![r] =
                    IF fails THEN Done(rec, ErrorResponse(StoreFailed))
                    ELSE Done(rec, FeedbackResponse(rec.feedback))]
    /\ now' = now + 1
    /\ UNCHANGED <<openaiKey, message, feedback, ci, app, fd>>

\* FeedbackUpdate with the update not narrowed to the session of the request.
FeedbackUpdateEverySession(r) ==
    /\ inv[r].fn = "feedback"
    /\ inv[r].pc = "update"
    /\ \E fails \in BOOLEAN :
          LET rec == StoreResult(Logged(inv[r], "session_update"), fails, StoreFailed)
          IN  /\ session' =
                    IF fails THEN session
                    ELSE [s \in SessionIds |->
                             IF session[s].exists THEN CompletedSession(session[s], now)
                             ELSE session[s]]
              /\ inv' = [inv EXCEPT ![r] = Done(rec, FeedbackResponse(rec.feedback))]
    /\ now' = now + 1
    /\ UNCHANGED <<openaiKey, message, feedback, ci, app, fd>>

\* await supabase.from('session').update(...).eq('id', session_id): its
\* result is not looked at; the response follows at once.
FeedbackUpdate(r) ==
    /\ inv[r].fn = "feedback"
    /\ inv[r].pc = "update"
    /\ \E fails \in BOOLEAN :
          LET rec == StoreResult(Logged(inv[r], "session_update"), fails, StoreFailed)
              sid == rec.session_id
          IN  /\ session' =
                    IF fails \/ ~session[sid].exists THEN session
                    ELSE [session EXCEPT ![sid] = CompletedSession(@, now)]
              /\ inv' = [inv EXCEPT ![r] = Done(rec, FeedbackResponse(rec.feedback))]
    /\ now' = now + 1
    /\ UNCHANGED <<openaiKey, message, feedback, ci, app, fd>>

\* The handler run ends between its two writes: after the feedback insert
\* and before the session update takes effect.
Crash(r) ==
    /\ inv[r].fn = "feedback"
    /\ inv[r].pc = "update"
    /\ inv' = [inv EXCEPT ![r] =
           [@ EXCEPT !.pc = "crashed", !.messages = NoMessages,
                     !.feedbackJson = Undefined, !.feedback = NoRow]]
    /\ UNCHANGED <<openaiKey, session, message, feedback, now, ci, app, fd>>

\* ------------------------------------------------------------- AppContent

\* useState('landing'), useState(null): the state of AppContent after its
\* first render; no handleStartSession and no handleSignOut is awaiting.
AtLanding ==
    [view |-> "landing", currentSessionId |-> "",
     starting |-> FALSE, signingOut |-> FALSE]

\* ------------------------------------------------------------- FeedbackDisplay

\* FeedbackDisplay while it is not rendered; useState(null), useState(true),
\* useState(false) are the values a mount starts from.
NoFeedbackDisplay ==
    [mounted |-> FALSE, sessionId |-> "", pc |-> "unmounted",
     loading |-> TRUE, generating |-> FALSE, feedback |-> FALSE, req |-> 0]

\* ------------------------------------------------------------- ChatInterface

Inputs == {"", "  ", " hi "}
\* String.prototype.trim on the inputs above.
Trim(str) == IF str = " hi " THEN "hi" ELSE ""

\* gen_random_uuid(): an identifier no session row has yet.
NewSessionId == IF session["s1"].exists THEN "s2" ELSE "s1"

Unmounted ==
    [mounted |-> FALSE, sessionId |-> "", pc |-> "unmounted",
     loading |-> FALSE, typingIndicator |-> FALSE, initializing |-> TRUE,
     messagesLength |-> 0, readError |-> FALSE, dataLength |-> 0,
     content |-> "", isInitial |-> FALSE, reply |-> ""]

\* ChatInterface rendered for a session: its first render, the effect that
\* calls loadMessages pending.
MountedChat(s) ==
    [Unmounted EXCEPT !.mounted = TRUE, !.sessionId = s, !.pc = "load"]

\* ChatInterface leaves the screen. What it awaits goes on without it: a
\* read or a send in progress runs to its end.
UnmountChat(c) ==
    IF c.pc \in {"unmounted", "ready"} THEN Unmounted
    ELSE [c EXCEPT !.mounted = FALSE]

\* FeedbackDisplay rendered for a session, loadOrGenerateFeedback pending.
MountedFeedback(s) ==
    [NoFeedbackDisplay EXCEPT !.mounted = TRUE, !.sessionId = s, !.pc = "lookup"]

\* FeedbackDisplay leaves the screen; a lookup or a generation in progress
\* runs to its end.
UnmountFeedback(f) ==
    IF f.pc \in {"unmounted", "done"} THEN NoFeedbackDisplay
    ELSE [f EXCEPT !.mounted = FALSE]

\* A scenario is clicked on the landing page: after the timer,
\* handleStartSession is called and awaits the store.
StartSessionCall ==
    /\ app.view = "landing"
    /\ ~app.starting
    /\ \E s \in SessionIds : ~session[s].exists
    /\ app' = [app EXCEPT !.starting = TRUE]
    /\ UNCHANGED <<openaiKey, session, message, feedback, now, inv, ci, fd>>

\* handleStartSession: the session insert with status 'active'; on success
\* the view becomes the chat and ChatInterface mounts, its effect pending.
StartSession(s) ==
    /\ app.starting
    /\ s = NewSessionId
    /\ ~session[s].exists
    /\ \E fails \in BOOLEAN :
          IF fails
          THEN /\ app' = [app EXCEPT !.starting = FALSE]
               /\ UNCHANGED <<session, ci, fd>>
          ELSE /\ ci.pc \in {"unmounted", "ready"}
               /\ fd.pc \in {"unmounted", "done"}
               /\ session' = [session EXCEPT ![s] = NewSession]
               /\ app' = [app EXCEPT !.starting = FALSE,
                                     !.currentSessionId = s, !.view = "chat"]
               /\ ci' = MountedChat(s)
               /\ fd' = NoFeedbackDisplay
    /\ UNCHANGED <<openaiKey, message, feedback, now, inv>>

\* SendFinished without setLoading(false).
SendFinishedKeepsLoading(c) ==
    [c EXCEPT !.pc = "ready", !.typingIndicator = FALSE,
              !.initializing = IF c.isInitial THEN FALSE ELSE @,
              !.content = "", !.isInitial = FALSE, !.reply = ""]

\* finally { setLoading(false); setTypingIndicator(false) } of sendMessage,
\* then finally { setInitializing(false) } of loadMessages when it awaited
\* this send.
SendFinished(c) ==
    [c EXCEPT !.pc = "ready", !.loading = FALSE, !.typingIndicator = FALSE,
              !.initializing = IF c.isInitial THEN FALSE ELSE @,
              !.content = "", !.isInitial = FALSE, !.reply = ""]

\* SendStarted with a guard that does not look at loading.
SendStartedUnguarded(c, content, isInitial) ==
    IF Trim(content) = "" /\ ~isInitial THEN c
    ELSE [c EXCEPT !.loading = TRUE, !.typingIndicator = TRUE,
                   !.content = content, !.isInitial = isInitial,
                   !.pc = IF isInitial THEN "fetch" ELSE "insert_user"]

\* sendMessage up to its first await: the guard, setLoading(true),
\* setTypingIndicator(true).
SendStarted(c, content, isInitial) ==
    IF (Trim(content) = "" /\ ~isInitial) \/ c.loading THEN c
    ELSE [c EXCEPT !.loading = TRUE, !.typingIndicator = TRUE,
                   !.content = content, !.isInitial = isInitial,
                   !.pc = IF isInitial THEN "fetch" ELSE "insert_user"]

\* loadMessages up to its await: the read of the session's messages
\* settles with an error or with the rows.
LoadMessages ==
    /\ ci.pc = "load"
    /\ \E fails \in BOOLEAN :
          ci' = [ci EXCEPT !.pc = "loaded", !.readError = fails,
                     !.dataLength = IF fails THEN 0
                                    ELSE Len(MessagesOf(ci.sessionId))]
    /\ UNCHANGED <<openaiKey, session, message, feedback, now, inv, app, fd>>

\* Loaded with the opening turn requested after a failed read as well.
LoadedOpensOnError(c) ==
    LET settled == [c EXCEPT !.readError = FALSE, !.dataLength = 0]
    IN  IF c.readError \/ c.dataLength = 0 THEN SendStarted(settled, "", TRUE)
        ELSE [settled EXCEPT !.pc = "ready", !.initializing = FALSE,
                             !.messagesLength = c.dataLength]

\* loadMessages after the read: if (error) throw; the opening turn when
\* data.length === 0, else setMessages(data); finally
\* setInitializing(false), at once unless the opening turn is awaited.
Loaded(c) ==
    LET settled == [c EXCEPT !.readError = FALSE, !.dataLength = 0]
    IN  IF c.readError
        THEN [settled EXCEPT !.pc = "ready", !.initializing = FALSE]
        ELSE IF c.dataLength = 0 THEN SendStarted(settled, "", TRUE)
        ELSE [settled EXCEPT !.pc = "ready", !.initializing = FALSE,
                             !.messagesLength = c.dataLength]

MessagesLoaded ==
    /\ ci.pc = "loaded"
    /\ ci' = Loaded(ci)
    /\ UNCHANGED <<openaiKey, session, message, feedback, now, inv, app, fd>>

\* handleSubmit: sendMessage(input) for what the user typed, while the
\* message table has fewer than `rows` rows.
SubmitUpTo(rows, input) ==
    /\ ci.mounted
    /\ ~ci.initializing
    /\ Len(message) < rows
    /\ ci' = SendStarted(ci, input, FALSE)
    /\ UNCHANGED <<openaiKey, session, message, feedback, now, inv, app, fd>>

Submit(input) == SubmitUpTo(MaxMsgs, input)

\* The insert of the user's message row.
InsertUserUpTo(rows) ==
    /\ ci.pc = "insert_user"
    /\ \E fails \in BOOLEAN :
          IF fails
          THEN /\ ci' = SendFinished(ci)
               /\ UNCHANGED message
          ELSE /\ Len(message) < rows
               /\ message' = Append(message,
                      MessageRow(ci.sessionId, "user", Trim(ci.content)))
               /\ ci' = [ci EXCEPT !.pc = "fetch",
                                   !.messagesLength = @ + 1]
    /\ UNCHANGED <<openaiKey, session, feedback, now, inv, app, fd>>

InsertUser == InsertUserUpTo(MaxMsgs)

\* fetch(.../functions/v1/chat): the request reaches the function, or the
\* fetch itself fails. (A request that reached the function while its
\* response was lost leaves no trace either: the chat function writes
\* nothing.)
FetchChat ==
    /\ ci.pc = "fetch"
    /\ inv[UiReq].pc = "idle"
    /\ \/ /\ ci' = SendFinished(ci)
          /\ UNCHANGED inv
       \/ /\ inv' = [inv EXCEPT ![UiReq] =
                ChatEntry(Request("chat", "POST", TRUE, ci.sessionId,
                    IF ci.isInitial THEN "" ELSE Trim(ci.content), ci.isInitial))]
          /\ ci' = [ci EXCEPT !.pc = "await"]
    /\ UNCHANGED <<openaiKey, session, message, feedback, now, app, fd>>

\* The response of the chat function: if (!response.ok) throw, else
\* result.message is kept for the assistant row.
ReceiveChat ==
    /\ ci.pc = "await"
    /\ inv[UiReq].pc = "done"
    /\ ci' = IF inv[UiReq].resp.status = 200
             THEN [ci EXCEPT !.pc = "insert_assistant",
                             !.reply = inv[UiReq].resp.message]
             ELSE SendFinished(ci)
    /\ inv' = [inv EXCEPT ![UiReq] = Idle]
    /\ UNCHANGED <<openaiKey, session, message, feedback, now, app, fd>>

\* The insert of the assistant's message row, after the typing delay.
InsertAssistantUpTo(rows) ==
    /\ ci.pc = "insert_assistant"
    /\ \E fails \in BOOLEAN :
          IF fails
          THEN /\ UNCHANGED message
               /\ ci' = SendFinished(ci)
          ELSE /\ Len(message) < rows
               /\ message' = Append(message,
                      MessageRow(ci.sessionId, "assistant", ci.reply))
               /\ ci' = SendFinished([ci EXCEPT !.messagesLength = @ + 1])
    /\ UNCHANGED <<openaiKey, session, feedback, now, inv, app, fd>>

InsertAssistant == InsertAssistantUpTo(MaxMsgs)

\* ------------------------------------------------------------- navigation

\* The views the navigation menu offers.
MenuViews == {"landing", "dashboard", "profile", "settings"}

\* HandleReturnHome without setView('landing').
HandleReturnHomeKeepsView(a) == [a EXCEPT !.currentSessionId = ""]

\* handleReturnHome: setCurrentSessionId(null), setView('landing').
HandleReturnHome(a) == [a EXCEPT !.currentSessionId = "", !.view = "landing"]

\* onShowFeedback: the Get Feedback button of ChatInterface, rendered once
\* the component holds four messages.
ShowFeedback ==
    /\ app.view = "chat"
    /\ ci.mounted /\ ~ci.initializing
    /\ ci.messagesLength >= 4
    /\ fd.pc \in {"unmounted", "done"}
    /\ app' = [app EXCEPT !.view = "feedback"]
    /\ ci' = UnmountChat(ci)
    /\ fd' = MountedFeedback(app.currentSessionId)
    /\ UNCHANGED <<openaiKey, session, message, feedback, now, inv>>

\* onBack of FeedbackDisplay, offered by both views it shows once it is
\* neither loading nor generating: handleBackToChat.
BackToChat ==
    /\ app.view = "feedback"
    /\ fd.mounted /\ ~fd.loading /\ ~fd.generating
    /\ ci.pc \in {"unmounted", "ready"}
    /\ app' = [app EXCEPT !.view = "chat"]
    /\ fd' = UnmountFeedback(fd)
    /\ ci' = MountedChat(app.currentSessionId)
    /\ UNCHANGED <<openaiKey, session, message, feedback, now, inv>>

\* handleReturnHome, from the back button of ChatInterface, of the
\* dashboard, the profile or the settings, or from the feedback shown.
ReturnHome ==
    /\ \/ app.view = "chat" /\ ci.mounted /\ ~ci.initializing
       \/ app.view = "feedback" /\ fd.mounted /\ fd.feedback
              /\ ~fd.loading /\ ~fd.generating
       \/ app.view \in {"dashboard", "profile", "settings"}
    /\ app' = HandleReturnHome(app)
    /\ ci' = UnmountChat(ci)
    /\ fd' = UnmountFeedback(fd)
    /\ UNCHANGED <<openaiKey, session, message, feedback, now, inv>>

\* handleNavigate: an entry of the navigation menu, shown over every view.
Navigate(newView) ==
    /\ newView \in MenuViews
    /\ app.view # newView
    /\ app' = [app EXCEPT !.view = newView]
    /\ ci' = UnmountChat(ci)
    /\ fd' = UnmountFeedback(fd)
    /\ UNCHANGED <<openaiKey, session, message, feedback, now, inv>>

\* handleViewSession: a session picked on the dashboard.
ViewSession(s) ==
    /\ app.view = "dashboard"
    /\ session[s].exists
    /\ app' = [app EXCEPT !.currentSessionId = s, !.view = "session-history"]
    /\ UNCHANGED <<openaiKey, session, message, feedback, now, inv, ci, fd>>

\* onBack of SessionHistory: setView('dashboard').
SessionHistoryBack ==
    /\ app.view = "session-history"
    /\ app.currentSessionId # ""
    /\ app' = [app EXCEPT !.view = "dashboard"]
    /\ UNCHANGED <<openaiKey, session, message, feedback, now, inv, ci, fd>>

\* handleSignOut is called and awaits signOut().
SignOutCall ==
    /\ ~app.signingOut
    /\ app' = [app EXCEPT !.signingOut = TRUE]
    /\ UNCHANGED <<openaiKey, session, message, feedback, now, inv, ci, fd>>

\* signOut() settles: handleReturnHome runs, unless signOut() rejected.
SignOutSettled ==
    /\ app.signingOut
    /\ \E fails \in BOOLEAN :
          IF fails
          THEN /\ app' = [app EXCEPT !.signingOut = FALSE]
               /\ UNCHANGED <<ci, fd>>
          ELSE /\ app' = [HandleReturnHome(app) EXCEPT !.signingOut = FALSE]
               /\ ci' = UnmountChat(ci)
               /\ fd' = UnmountFeedback(fd)
    /\ UNCHANGED <<openaiKey, session, message, feedback, now, inv>>

\* ------------------------------------------------------------- feedback view

\* finally { setGenerating(false); setLoading(false) } of generateFeedback.
GenerateFinished(f, hasFeedback) ==
    [f EXCEPT !.pc = "done", !.generating = FALSE, !.loading = FALSE,
              !.feedback = hasFeedback, !.req = 0]

\* loadOrGenerateFeedback up to generateFeedback's fetch: the lookup with
\* maybeSingle(), an error when the store fails or holds several rows.
LoadOrGenerateFeedback ==
    /\ fd.pc = "lookup"
    /\ \E fails \in BOOLEAN :
          LET rows == FeedbackOf(fd.sessionId)
          IN  fd' = IF fails \/ Len(rows) > 1
                    THEN [fd EXCEPT !.pc = "done", !.loading = FALSE]
                    ELSE IF Len(rows) = 1
                    THEN [fd EXCEPT !.pc = "done", !.loading = FALSE,
                                    !.feedback = TRUE]
                    ELSE [fd EXCEPT !.pc = "fetch", !.generating = TRUE]
    /\ UNCHANGED <<openaiKey, session, message, feedback, now, inv, ci, app>>

\* fetch(.../functions/v1/feedback): the fetch fails before a request
\* reaches the function; or the request reaches the function and the
\* component awaits the response; or the request reaches the function and
\* the fetch is rejected all the same, the connection lost on the way back.
FetchFeedback ==
    /\ fd.pc = "fetch"
    /\ \/ /\ fd' = GenerateFinished(fd, FALSE)
          /\ UNCHANGED inv
       \/ \E r \in DirectReqs :
             /\ inv[r].pc = "idle"
             /\ r = 1 \/ inv[r - 1].pc # "idle"
             /\ inv' = [inv EXCEPT ![r] =
                   FeedbackEntry(Request("feedback", "POST", TRUE,
                                         fd.sessionId, "", FALSE))]
             /\ \/ fd' = [fd EXCEPT !.pc = "await", !.req = r]
                \/ fd' = GenerateFinished(fd, FALSE)
    /\ UNCHANGED <<openaiKey, session, message, feedback, now, ci, app>>

\* The response of the feedback function: if (!response.ok) throw, else
\* setFeedback(feedbackData). A function that stopped without a response
\* rejects the fetch.
ReceiveFeedback ==
    /\ fd.pc = "await"
    /\ inv[fd.req].pc \in {"done", "crashed"}
    /\ fd' = GenerateFinished(fd,
                inv[fd.req].pc = "done" /\ inv[fd.req].resp.status = 200)
    /\ UNCHANGED <<openaiKey, session, message, feedback, now, inv, ci, app>>

\* ------------------------------------------------------------- specification

Init ==
    /\ openaiKey \in BOOLEAN
    /\ session = [s \in SessionIds |-> NoSession]
    /\ message = <<>>
    /\ feedback = <<>>
    /\ now = 1
    /\ inv = [r \in Reqs |-> Idle]
    /\ ci = Unmounted
    /\ app = AtLanding
    /\ fd = NoFeedbackDisplay

Next ==
    \/ \E r \in DirectReqs : ChatInvoke(r)
    \/ \E r \in DirectReqs : FeedbackInvoke(r)
    \/ \E r \in Reqs : ChatSessionRead(r)
    \/ \E r \in Reqs : ChatMessageRead(r)
    \/ \E r \in Reqs : ChatCompletion(r)
    \/ \E r \in Reqs : FeedbackSessionRead(r)
    \/ \E r \in Reqs : FeedbackMessageRead(r)
    \/ \E r \in Reqs : FeedbackCompletion(r)
    \/ \E r \in Reqs : FeedbackInsert(r)
    \/ \E r \in Reqs : FeedbackUpdate(r)
    \/ \E r \in Reqs : Crash(r)
    \/ StartSessionCall
    \/ \E s \in SessionIds : StartSession(s)
    \/ LoadMessages
    \/ MessagesLoaded
    \/ \E input \in Inputs : Submit(input)
    \/ InsertUser
    \/ FetchChat
    \/ ReceiveChat
    \/ InsertAssistant

Spec == Init /\ [][Next]_vars

\* ------------------------------------------------------------- browser tab
\* The application driven through its screens only: nothing calls the two
\* functions but ChatInterface and FeedbackDisplay. It starts in the chat
\* of a session that had its opening turn and one exchange.

\* Message rows in the store of the browser-tab behaviours: the four that
\* make ChatInterface offer the feedback, and one more for the behaviours
\* of a single conversation.
MaxUiMsgs == 4
MaxConversationMsgs == MaxUiMsgs + 1

InitApp ==
    /\ openaiKey = TRUE
    /\ session = [s \in SessionIds |->
                     IF s = "s1" THEN NewSession ELSE NoSession]
    /\ message = <<MessageRow("s1", "assistant", "Hello"),
                   MessageRow("s1", "user", "hi"),
                   MessageRow("s1", "assistant", "Hello")>>
    /\ feedback = <<>>
    /\ now = 1
    /\ inv = [r \in Reqs |-> Idle]
    /\ ci = [MountedChat("s1") EXCEPT !.pc = "ready", !.initializing = FALSE,
                                      !.messagesLength = 3]
    /\ app = [AtLanding EXCEPT !.view = "chat", !.currentSessionId = "s1"]
    /\ fd = NoFeedbackDisplay

NextApp ==
    \/ \E r \in Reqs : ChatSessionRead(r)
    \/ \E r \in Reqs : ChatMessageRead(r)
    \/ \E r \in Reqs : ChatCompletion(r)
    \/ \E r \in Reqs : FeedbackSessionRead(r)
    \/ \E r \in Reqs : FeedbackMessageRead(r)
    \/ \E r \in Reqs : FeedbackCompletion(r)
    \/ \E r \in Reqs : FeedbackInsert(r)
    \/ \E r \in Reqs : FeedbackUpdate(r)
    \/ \E r \in Reqs : Crash(r)
    \/ StartSessionCall
    \/ \E s \in SessionIds : StartSession(s)
    \/ LoadMessages
    \/ MessagesLoaded
    \/ \E input \in Inputs : SubmitUpTo(MaxUiMsgs, input)
    \/ InsertUserUpTo(MaxUiMsgs)
    \/ FetchChat
    \/ ReceiveChat
    \/ InsertAssistantUpTo(MaxUiMsgs)
    \/ ShowFeedback
    \/ BackToChat
    \/ ReturnHome
    \/ \E newView \in MenuViews : Navigate(newView)
    \/ \E s \in SessionIds : ViewSession(s)
    \/ SessionHistoryBack
    \/ SignOutCall
    \/ SignOutSettled
    \/ LoadOrGenerateFeedback
    \/ FetchFeedback
    \/ ReceiveFeedback

SpecApp == InitApp /\ [][NextApp]_vars

\* The chat and the feedback view of that one session, the user going back
\* and forth between the two and never leaving them.
NextConversation ==
    \/ \E r \in Reqs : ChatSessionRead(r)
    \/ \E r \in Reqs : ChatMessageRead(r)
    \/ \E r \in Reqs : ChatCompletion(r)
    \/ \E r \in Reqs : FeedbackSessionRead(r)
    \/ \E r \in Reqs : FeedbackMessageRead(r)
    \/ \E r \in Reqs : FeedbackCompletion(r)
    \/ \E r \in Reqs : FeedbackInsert(r)
    \/ \E r \in Reqs : FeedbackUpdate(r)
    \/ \E r \in Reqs : Crash(r)
    \/ LoadMessages
    \/ MessagesLoaded
    \/ \E input \in Inputs : SubmitUpTo(MaxConversationMsgs, input)
    \/ InsertUserUpTo(MaxConversationMsgs)
    \/ FetchChat
    \/ ReceiveChat
    \/ InsertAssistantUpTo(MaxConversationMsgs)
    \/ ShowFeedback
    \/ BackToChat
    \/ LoadOrGenerateFeedback
    \/ FetchFeedback
    \/ ReceiveFeedback

SpecConversation == InitApp /\ [][NextConversation]_vars

\* ------------------------------------------------------------- two sessions
\* The two functions called directly while the store holds two sessions
\* that ChatInterface created and filled earlier, their message rows
\* interleaved in creation order.

TwoSessionTables ==
    {<<MessageRow("s1", "assistant", "Hello"), MessageRow("s2", "assistant", "Hello"),
       MessageRow("s2", "user", "hi"), MessageRow("s1", "user", "hi"),
       MessageRow("s2", "assistant", "Hello")>>,
     <<MessageRow("s2", "user", "hi"), MessageRow("s1", "assistant", "Hello"),
       MessageRow("s2", "user", "hi")>>,
     <<MessageRow("s1", "assistant", "Hello"), MessageRow("s1", "user", "hi")>>}

InitTwoSessions ==
    /\ openaiKey = TRUE
    /\ session = [s \in SessionIds |-> NewSession]
    /\ message \in TwoSessionTables
    /\ feedback = <<>>
    /\ now = 1
    /\ inv = [r \in Reqs |-> Idle]
    /\ ci = Unmounted
    /\ app = AtLanding
    /\ fd = NoFeedbackDisplay

NextFunctions ==
    \/ \E r \in DirectReqs : ChatInvoke(r)
    \/ \E r \in DirectReqs : FeedbackInvoke(r)
    \/ \E r \in Reqs : ChatSessionRead(r)
    \/ \E r \in Reqs : ChatMessageRead(r)
    \/ \E r \in Reqs : ChatCompletion(r)
    \/ \E r \in Reqs : FeedbackSessionRead(r)
    \/ \E r \in Reqs : FeedbackMessageRead(r)
    \/ \E r \in Reqs : FeedbackCompletion(r)
    \/ \E r \in Reqs : FeedbackInsert(r)
    \/ \E r \in Reqs : FeedbackUpdate(r)
    \/ \E r \in Reqs : Crash(r)

SpecTwoSessions == InitTwoSessions /\ [][NextFunctions]_vars

\* ------------------------------------------------------------- properties

Range(seq) == {seq[i] : i \in 1..Len(seq)}
Tables == <<session, message, feedback>>
\* Invocation r takes a step of its handler (not the platform ending it).
Steps(r, fn, pc) ==
    /\ inv[r].fn = fn
    /\ inv[r].pc = pc
    /\ inv'[r].pc \notin {pc, "crashed"}
Succeeded(r, fn) ==
    /\ inv[r].fn = fn
    /\ inv[r].method = "POST"
    /\ inv[r].pc = "done"
    /\ inv[r].resp.status = 200

\* C1: no step of a chat invocation changes the session, message or
\* feedback table, and the only operations a chat invocation issues are
\* the session read, the message read and the model call.
C1_ChatNeverWrites ==
    [][\A r \in Reqs :
          (inv'[r].fn = "chat" /\ inv'[r] # inv[r]) =>
              /\ UNCHANGED Tables
              /\ Range(inv'[r].ops) \subseteq {"session_read", "message_read", "openai"}
              /\ Len(inv'[r].ops) <= 3]_vars

C1_Witness ==
    \E r \in Reqs :
        /\ Succeeded(r, "chat")
        /\ inv[r].resp.message # ""
        /\ inv[r].ops = <<"session_read", "message_read", "openai">>
        /\ Len(MessagesOf(inv[r].session_id)) > 0

\* C2 (as claimed): whenever a feedback invocation has returned the feedback
\* record, its session is completed with a non-null end timestamp.
C2_SuccessMeansCompleted ==
    \A r \in Reqs :
        Succeeded(r, "feedback") =>
            /\ session[inv[r].session_id].status = "completed"
            /\ session[inv[r].session_id].ended_at # 0

\* C3 (as claimed): the record a successful feedback invocation returns is a
\* row of the feedback table whose scores hold clarity, empathy and
\* assertiveness, all numbers.
C3_ScoresPresentNumeric ==
    \A r \in Reqs :
        Succeeded(r, "feedback") =>
            /\ inv[r].resp.record \in Range(feedback)
            /\ DOMAIN inv[r].resp.record.scores = ScoreKeys
            /\ \A k \in DOMAIN inv[r].resp.record.scores :
                  inv[r].resp.record.scores[k].t = "num"

\* An invocation that has finished takes no further step.
FinishedStays ==
    \A r \in DirectReqs :
        inv[r].pc \in {"done", "crashed"} => inv'[r] = inv[r]

\* C4: a feedback invocation that reads the transcript of a session with
\* fewer than two messages ends there with the "Not enough conversation for
\* feedback" error, having issued only the two reads (no model call, no
\* insert, no update), and the tables are as they were.
C4_NotEnoughRejected ==
    [][/\ FinishedStays
       /\ \A r \in Reqs :
             (/\ Steps(r, "feedback", "message_read")
              /\ Len(MessagesOf(inv[r].session_id)) < 2) =>
                 /\ inv'[r].pc = "done"
                 /\ inv'[r].resp = ErrorResponse(NotEnough)
                 /\ inv'[r].ops = <<"session_read", "message_read">>
                 /\ UNCHANGED Tables]_vars

C4_Witness ==
    \E r \in Reqs :
        /\ inv[r].fn = "feedback"
        /\ inv[r].pc = "done"
        /\ inv[r].resp = ErrorResponse(NotEnough)
        /\ session[inv[r].session_id].exists
        /\ Len(MessagesOf(inv[r].session_id)) = 1
        /\ FeedbackOf(inv[r].session_id) = <<>>

\* C5: an invocation of either function whose session identifier resolves to
\* no session row ends at the session lookup with "Session not found" (not
\* an upstream error), having issued only that read: no model call, no write.
\* With the model-inference key configured that is the only way such a POST
\* ends; without the key it ends before the lookup, with the key error.
C5_SessionNotFound ==
    /\ [](\A r \in Reqs :
             (/\ inv[r].fn \in {"chat", "feedback"}
              /\ inv[r].method = "POST"
              /\ inv[r].bodyOk
              /\ ~session[inv[r].session_id].exists) =>
                 /\ Range(inv[r].ops) \subseteq {"session_read"}
                 /\ inv[r].pc \in {"session_read", "done"}
                 /\ inv[r].pc = "done" =>
                        /\ inv[r].resp.status = 500
                        /\ inv[r].resp.error =
                               IF openaiKey THEN SessionNotFound ELSE KeyMissing)
    /\ [][/\ FinishedStays
          /\ \A r \in Reqs : \A fn \in {"chat", "feedback"} :
                (/\ Steps(r, fn, "session_read")
                 /\ ~session[inv[r].session_id].exists) =>
                    /\ inv'[r].pc = "done"
                    /\ inv'[r].resp = ErrorResponse(SessionNotFound)
                    /\ inv'[r].ops = <<"session_read">>
                    /\ UNCHANGED Tables]_vars

C5_Witness ==
    \E r1, r2 \in Reqs :
        /\ inv[r1].fn = "chat"
        /\ inv[r2].fn = "feedback"
        /\ \A r \in {r1, r2} :
              /\ inv[r].pc = "done"
              /\ inv[r].resp.error = SessionNotFound
              /\ ~session[inv[r].session_id].exists

\* C6 (as claimed): at most one feedback row references any session.
C6_AtMostOneFeedback ==
    \A s \in SessionIds : Len(FeedbackOf(s)) <= 1

\* C7: the feedback insert is not guarded by the rows the session already
\* has: it fails only when the store request fails or a NOT NULL column is
\* missing, and otherwise appends a new row for the session and goes on to
\* the session update; every record returned is a row of the table, and two
\* successful invocations return two different rows.
C7_DuplicateFeedbackAllowed ==
    /\ [](\A r1, r2 \in Reqs :
             (Succeeded(r1, "feedback") /\ Succeeded(r2, "feedback")) =>
                 /\ inv[r1].resp.record \in Range(feedback)
                 /\ inv[r1].resp.record.session_id = inv[r1].session_id
                 /\ r1 # r2 => inv[r1].resp.record # inv[r2].resp.record)
    /\ [][\A r \in Reqs :
             Steps(r, "feedback", "insert") =>
                 LET row == FeedbackRow(Len(feedback) + 1, inv[r].session_id,
                                        inv[r].feedbackJson)
                 IN  \/ /\ inv'[r].pc = "update"
                        /\ feedback' = Append(feedback, row)
                        /\ FeedbackOf(inv[r].session_id)' =
                               Append(FeedbackOf(inv[r].session_id), row)
                     \/ /\ inv'[r].pc = "done"
                        /\ feedback' = feedback
                        /\ \/ inv'[r].resp = ErrorResponse(StoreFailed)
                           \/ /\ inv'[r].resp = ErrorResponse(NotNullViolation)
                              /\ ~NotNullOk(row)]_vars

C7_Witness ==
    \E r1, r2 \in Reqs :
        /\ r1 # r2
        /\ Succeeded(r1, "feedback")
        /\ Succeeded(r2, "feedback")
        /\ inv[r1].session_id = inv[r2].session_id
        /\ inv[r1].resp.record.id = 1
        /\ inv[r2].resp.record.id = 2
        /\ DOMAIN inv[r1].resp.record.scores = ScoreKeys
        /\ DOMAIN inv[r2].resp.record.scores = ScoreKeys
        /\ Len(FeedbackOf(inv[r1].session_id)) = 2

\* C8 (as claimed): a session that has a feedback row has a message of role
\* user and a message of role assistant (message rows are never removed, so
\* a transcript that held both when it was read holds both ever after).
C8_BothRolesBeforeFeedback ==
    \A s \in SessionIds :
        FeedbackOf(s) # <<>> =>
            /\ \E m \in Range(MessagesOf(s)) : m.role = "user"
            /\ \E m \in Range(MessagesOf(s)) : m.role = "assistant"

\* The invocation stopped after its feedback insert and before its update.
StoppedBetweenWrites(r) ==
    /\ inv[r].fn = "feedback"
    /\ inv[r].pc = "crashed"
    /\ inv[r].ops = <<"session_read", "message_read", "openai", "feedback_insert">>
UpdatedBy(r, sid) ==
    /\ inv[r].fn = "feedback"
    /\ inv[r].session_id = sid
    /\ "session_update" \in Range(inv[r].ops)

\* C9: an invocation that stops between its two writes leaves its feedback
\* row in the table and the session as it was (still active unless another
\* invocation completed it); nothing repairs this: feedback rows are never
\* removed or changed, a finished invocation takes no further step, and an
\* update that did not take effect is answered with the success response.
C9_NoRepairBetweenWrites ==
    /\ [](\A r \in Reqs :
             StoppedBetweenWrites(r) =>
                 /\ FeedbackOf(inv[r].session_id) # <<>>
                 /\ (\A r2 \in Reqs : ~UpdatedBy(r2, inv[r].session_id)) =>
                        session[inv[r].session_id] = NewSession)
    /\ [][/\ FinishedStays
          /\ Len(feedback') >= Len(feedback)
          /\ \A i \in 1..Len(feedback) : feedback'[i] = feedback[i]
          /\ \A r \in Reqs :
                (/\ inv[r].fn = "feedback"
                 /\ inv[r].pc = "update"
                 /\ inv'[r] # inv[r]) =>
                    \/ /\ inv'[r].pc = "crashed"
                       /\ UNCHANGED Tables
                    \/ /\ inv'[r].pc = "done"
                       /\ inv'[r].resp = FeedbackResponse(inv[r].feedback)
                       /\ inv[r].feedback \in Range(feedback')
                       /\ UNCHANGED <<message, feedback>>]_vars

C9_Witness ==
    \E r \in Reqs :
        /\ StoppedBetweenWrites(r)
        /\ session[inv[r].session_id] = NewSession
        /\ Len(FeedbackOf(inv[r].session_id)) = 1
        /\ \A r2 \in DirectReqs : inv[r2].pc \in {"done", "crashed"}

NotJson(text) == JSONParse(text).t = "SyntaxError"

\* C10: for a completion text that is not JSON the feedback handler ends
\* with the caught error response (status 500, {error: ...}) and not by
\* dying; that invocation has issued no insert and no update, and the step
\* leaves the tables as they were.
C10_MalformedJsonReported ==
    /\ [](\A r \in Reqs :
             /\ (inv[r].fn = "feedback" /\ inv[r].pc = "openai") =>
                   \A text \in FeedbackTexts :
                       NotJson(text) =>
                           LET out == ParsedFeedback(Logged(inv[r], "openai"), text)
                           IN  /\ out.pc = "done"
                               /\ out.resp = ErrorResponse(ParseFailed)
                               /\ out.resp.status = 500
                               /\ out.resp.error # ""
             /\ (inv[r].fn = "feedback" /\ inv[r].resp.error = ParseFailed) =>
                   /\ inv[r].pc = "done"
                   /\ inv[r].ops = <<"session_read", "message_read", "openai">>)
    /\ [][/\ FinishedStays
          /\ \A r \in Reqs : Steps(r, "feedback", "openai") => UNCHANGED Tables]_vars

C10_Witness ==
    /\ NotJson(WrappedText)
    /\ NotJson(TruncatedText)
    /\ \E r \in Reqs :
          /\ inv[r].fn = "feedback"
          /\ inv[r].pc = "done"
          /\ inv[r].resp = ErrorResponse(ParseFailed)
          /\ session[inv[r].session_id] = NewSession
          /\ FeedbackOf(inv[r].session_id) = <<>>

\* C11: an invocation of either function whose model call was answered with
\* a non-success status has ended with the error response whose message is
\* "OpenAI API error: " followed by the upstream body; the response carries
\* no reply text and no record, the invocation issued nothing after the
\* model call (no insert, no update), and the step that received the answer
\* left the tables as they were.
C11_UpstreamErrorSurfaced ==
    /\ [](\A r \in Reqs :
             (inv[r].upstream.answered /\ ~inv[r].upstream.ok) =>
                 /\ inv[r].fn \in {"chat", "feedback"}
                 /\ inv[r].pc = "done"
                 /\ inv[r].resp.status = 500
                 /\ inv[r].resp.error =
                        "OpenAI API error: " \o inv[r].upstream.errorText
                 /\ inv[r].resp.message = ""
                 /\ inv[r].resp.record = NoRow
                 /\ inv[r].ops = <<"session_read", "message_read", "openai">>)
    /\ [][/\ FinishedStays
          /\ \A r \in Reqs :
                (inv'[r].upstream.answered /\ ~inv'[r].upstream.ok
                    /\ inv'[r] # inv[r]) =>
                        /\ inv[r].pc = "openai"
                        /\ UNCHANGED Tables]_vars

C11_Witness ==
    \E r1, r2 \in Reqs :
        /\ inv[r1].fn = "chat"
        /\ inv[r2].fn = "feedback"
        /\ inv[r1].upstream = ErrorAnswer("rate limit")
        /\ inv[r2].upstream = ErrorAnswer("quota")
        /\ inv[r1].resp.error = "OpenAI API error: rate limit"
        /\ inv[r2].resp.error = "OpenAI API error: quota"
        /\ Len(MessagesOf(inv[r2].session_id)) >= 2
        /\ FeedbackOf(inv[r2].session_id) = <<>>
        /\ session[inv[r2].session_id] = NewSession

\* C12 (as claimed): no invocation returns a success response after one of
\* its own store operations (session read, message read, feedback insert,
\* session update) handed it an error.
C12_NoSuccessAfterStoreFailure ==
    \A r \in Reqs :
        (inv[r].pc = "done" /\ inv[r].storeError # "") => inv[r].resp.status # 200

\* The messages of the errors a POST invocation may raise.
ClientErrors == {BodySyntaxError, SessionNotFound, NotEnough}
ServerErrors ==
    {KeyMissing, FetchFailed, ParseFailed, NullAccess, StoreFailed, NotNullViolation}
        \cup {UpstreamError(body) : body \in UpstreamBodies}

\* C13: a POST invocation of either function that has ended has sent either
\* its success response or the error envelope: status 500, {error: message}
\* with a non-empty message, nothing else in the body.  Apart from the
\* message the envelope is the same for every error, whether the client
\* caused it or the server or the upstream did.
C13_UniformErrorEnvelope ==
    \A r \in Reqs :
        (inv[r].fn \in {"chat", "feedback"} /\ inv[r].method = "POST"
            /\ inv[r].pc = "done") =>
                \/ inv[r].resp.status = 200 /\ inv[r].resp.error = ""
                \/ /\ inv[r].resp.status = 500
                   /\ inv[r].resp.error \in ClientErrors \cup ServerErrors
                   /\ inv[r].resp.error # ""
                   /\ inv[r].resp = ErrorResponse(inv[r].resp.error)
                   /\ [inv[r].resp EXCEPT !.error = "e"] = ErrorResponse("e")

C13_Witness ==
    \E r1, r2 \in Reqs :
        /\ inv[r1].fn = "feedback" /\ inv[r2].fn = "chat"
        /\ inv[r1].pc = "done" /\ inv[r2].pc = "done"
        /\ inv[r1].resp.error \in ClientErrors
        /\ inv[r2].resp.error \in ServerErrors \ {KeyMissing}
        /\ inv[r1].resp.status = inv[r2].resp.status
        /\ [inv[r1].resp EXCEPT !.error = "e"] = [inv[r2].resp EXCEPT !.error = "e"]

\* C14: with no model-inference key configured, every POST invocation of
\* either function has ended with the "OpenAI API key not configured" error
\* as soon as it arrived: whether or not its body could be parsed (the body
\* is not read), with no store operation and no model call issued by it,
\* and without a change to the tables.
C14_MissingKeyIsFatalFirst ==
    /\ [](~openaiKey =>
             \A r \in Reqs :
                 (inv[r].fn \in {"chat", "feedback"} /\ inv[r].method = "POST") =>
                     /\ inv[r].pc = "done"
                     /\ inv[r].resp = ErrorResponse(KeyMissing)
                     /\ inv[r].ops = <<>>
                     /\ inv[r].storeError = ""
                     /\ inv[r].upstream = NoAnswer)
    /\ [][~openaiKey =>
             /\ openaiKey' = openaiKey
             /\ \A r \in Reqs : inv'[r] # inv[r] => UNCHANGED Tables]_vars

C14_Witness ==
    /\ ~openaiKey
    /\ session["s1"].exists
    /\ \E r1, r2 \in DirectReqs :
          /\ inv[r1].fn = "chat" /\ inv[r1].method = "POST" /\ ~inv[r1].bodyOk
          /\ inv[r2].fn = "feedback" /\ inv[r2].method = "POST" /\ inv[r2].bodyOk
          /\ inv[r2].session_id = "s1"
          /\ inv[r1].resp.error = KeyMissing
          /\ inv[r2].resp.error = KeyMissing

IsPrefix(a, b) == Len(a) <= Len(b) /\ a = SubSeq(b, 1, Len(a))
\* The operations of a handler in the order of its code.
StepOrder(fn) ==
    IF fn = "chat" THEN <<"session_read", "message_read", "openai">>
    ELSE <<"session_read", "message_read", "openai",
           "feedback_insert", "session_update">>
\* The place of the handler after it has issued n operations.
PcAfter(n) == <<"session_read", "message_read", "openai", "insert", "update">>[n + 1]

\* C15: what a POST invocation has issued so far is a prefix of the one
\* sequence of its handler (session read, message read, model call, and for
\* feedback the insert, then the update), so there is at most one model call
\* and no write before it; a write has been issued only after the model
\* call was answered with a success; an invocation still running is at the
\* step after its last operation and has sent nothing; a success response
\* comes after the whole sequence; each step issues at most one operation,
\* and an invocation that has responded takes no further step (one response).
C15_FixedSequentialOrder ==
    /\ [](\A r \in Reqs :
             (inv[r].fn \in {"chat", "feedback"} /\ inv[r].method = "POST") =>
                 /\ IsPrefix(inv[r].ops, StepOrder(inv[r].fn))
                 /\ Len(inv[r].ops) > 3 => inv[r].upstream = OkAnswer
                 /\ inv[r].upstream.answered => Len(inv[r].ops) >= 3
                 /\ inv[r].pc \notin {"done", "crashed"} =>
                        /\ inv[r].pc = PcAfter(Len(inv[r].ops))
                        /\ inv[r].resp = NoResp
                 /\ inv[r].pc = "done" => inv[r].resp # NoResp
                 /\ Succeeded(r, inv[r].fn) => inv[r].ops = StepOrder(inv[r].fn))
    /\ [][/\ FinishedStays
          /\ \A r \in Reqs :
                (inv[r].fn # "none" /\ inv'[r].fn # "none") =>
                    /\ Len(inv'[r].ops) <= Len(inv[r].ops) + 1
                    /\ IsPrefix(inv[r].ops, inv'[r].ops)
                    /\ Len(feedback') > Len(feedback) =>
                           \E r2 \in Reqs :
                               /\ inv[r2].ops = SubSeq(StepOrder("feedback"), 1, 3)
                               /\ inv'[r2].ops = SubSeq(StepOrder("feedback"), 1, 4)
                               /\ inv[r2].upstream = OkAnswer]_vars

C15_Witness ==
    \E r1, r2 \in Reqs :
        /\ Succeeded(r1, "chat")
        /\ Succeeded(r2, "feedback")
        /\ inv[r1].ops = StepOrder("chat")
        /\ inv[r2].ops = StepOrder("feedback")
        /\ session[inv[r2].session_id].status = "completed"

\* The record the well-formed payload must become.
ExpectedRow(id, sid) ==
    [id |-> id, session_id |-> sid, summary |-> Str("ok"),
     scores |-> [clarity |-> Num("4"), empathy |-> Num("3"),
                 assertiveness |-> Num("5")],
     recommendations |-> Str("a b c")]

\* C16: a feedback invocation that has read two or more messages and gets
\* the well-formed payload (summary "ok", clarity 4, empathy 3,
\* assertiveness 5, recommendations "a b c") goes on to the insert with the
\* parsed object; its insert, unless the store request fails, appends the
\* row with exactly those three scores, the same summary and
\* recommendations and the request's session reference; and the record its
\* response returns is that row.
C16_WellFormedRoundTrip ==
    /\ [](\A r \in Reqs :
             /\ (inv[r].fn = "feedback" /\ inv[r].pc = "openai") =>
                   LET out == ParsedFeedback(
                                  [Logged(inv[r], "openai") EXCEPT !.upstream = OkAnswer],
                                  GoodText)
                   IN  /\ Len(inv[r].messages.rows) >= 2
                       /\ out.pc = "insert"
                       /\ out.session_id = inv[r].session_id
                       /\ out.feedbackJson = JSONParse(GoodText)
                       /\ \A id \in 1..MaxDirect + 1 :
                             FeedbackRow(id, out.session_id, out.feedbackJson) =
                                 ExpectedRow(id, inv[r].session_id)
             /\ Succeeded(r, "feedback") =>
                   /\ inv[r].resp.record \in Range(feedback)
                   /\ inv[r].resp.record.session_id = inv[r].session_id)
    /\ [][\A r \in Reqs :
             /\ (Steps(r, "feedback", "insert")
                    /\ inv[r].feedbackJson = JSONParse(GoodText)) =>
                   LET row == ExpectedRow(Len(feedback) + 1, inv[r].session_id)
                   IN  \/ /\ inv'[r].pc = "update"
                          /\ inv'[r].feedback = row
                          /\ feedback' = Append(feedback, row)
                       \/ /\ inv'[r].resp = ErrorResponse(StoreFailed)
                          /\ feedback' = feedback
             /\ Steps(r, "feedback", "update") =>
                   /\ inv'[r].resp.status = 200
                   /\ inv'[r].resp.record = inv[r].feedback
                   /\ feedback' = feedback]_vars

C16_Witness ==
    \E r \in Reqs :
        /\ Succeeded(r, "feedback")
        /\ Len(MessagesOf(inv[r].session_id)) >= 2
        /\ inv[r].resp.record = ExpectedRow(1, inv[r].session_id)
        /\ feedback = <<ExpectedRow(1, inv[r].session_id)>>
        /\ DOMAIN inv[r].resp.record.scores = ScoreKeys

Alternating(lines) ==
    \A i \in 1..Len(lines) - 1 : lines[i].speaker # lines[i + 1].speaker

\* C18 (as claimed): in the transcript a feedback invocation has rendered,
\* no two consecutive lines carry the same speaker label.
C18_TranscriptAlternates ==
    \A r \in Reqs :
        (inv[r].fn = "feedback" /\ inv[r].pc = "openai") =>
            Alternating(inv[r].conversationText)

\* What the store holds for one session.
RowsOf(s) == <<session[s], MessagesOf(s), FeedbackOf(s)>>
\* The message rows of a session, picked from the table one by one.
RECURSIVE Picked(_, _)
Picked(sid, n) ==
    IF n = 0 THEN <<>>
    ELSE IF message[n].session_id = sid
         THEN Append(Picked(sid, n - 1),
                     [role |-> message[n].role, content |-> message[n].content])
         ELSE Picked(sid, n - 1)

\* C19: a step of an invocation for session A leaves the rows of every
\* other session and every invocation for another session (its place, what
\* it has read, its response) as they were; what it reads are the rows of A
\* and no others; the feedback row it inserts references A, and the session
\* row it updates is A's.  So for invocations on distinct sessions, in any
\* interleaving, the rows and the response for A are what the steps of A's
\* invocation alone make them (row identifiers and timestamps are
\* generated values).
C19_SessionsIsolated ==
    /\ [](\A r \in Reqs :
             Succeeded(r, "feedback") =>
                 /\ inv[r].resp.record.session_id = inv[r].session_id
                 /\ inv[r].resp.record \in Range(FeedbackOf(inv[r].session_id)))
    /\ [][\A r \in Reqs :
             (inv'[r] # inv[r] /\ inv[r].pc # "idle") =>
                 LET A == inv[r].session_id
                 IN  /\ \A B \in SessionIds \ {A} : RowsOf(B)' = RowsOf(B)
                     /\ \A r2 \in Reqs \ {r} : inv'[r2] = inv[r2]
                     /\ message' = message
                     /\ inv[r].pc = "message_read" =>
                            \/ inv'[r].storeError # ""
                            \/ /\ inv'[r].pc = "openai"
                               /\ inv'[r].messages.rows = Picked(A, Len(message))
                            \/ /\ inv'[r].resp = ErrorResponse(NotEnough)
                               /\ Len(Picked(A, Len(message))) < 2
                     /\ inv[r].pc = "insert" =>
                            \/ feedback' = feedback
                            \/ /\ Len(feedback') = Len(feedback) + 1
                               /\ SubSeq(feedback', 1, Len(feedback)) = feedback
                               /\ feedback'[Len(feedback')].session_id = A
                     /\ inv[r].pc # "insert" => feedback' = feedback
                     /\ inv[r].pc # "update" => session' = session]_vars

C19_Witness ==
    \E r1, r2 \in Reqs :
        /\ Succeeded(r1, "feedback")
        /\ inv[r2].fn = "feedback" /\ inv[r2].pc = "update"
        /\ inv[r1].session_id = "s1" /\ inv[r2].session_id = "s2"
        /\ inv[r1].resp.record.id = 2
        /\ session["s1"].status = "completed"
        /\ session["s2"].status = "active"
        /\ Len(FeedbackOf("s1")) = 1 /\ Len(FeedbackOf("s2")) = 1
        /\ Len(MessagesOf("s1")) = 2 /\ Len(MessagesOf("s2")) = 3

\* C20: an OPTIONS request to either endpoint has been answered as soon as
\* it arrived, with status 200, an empty body and the cross-origin headers
\* (any origin, the fixed methods, the fixed headers), whether or not the
\* model-inference key is configured, with no store operation and no model
\* call; answering it changes no table; and every response to a POST,
\* success or error, carries the same cross-origin headers.
C20_PreflightAndCors ==
    /\ [](\A r \in Reqs :
             /\ (inv[r].fn \in {"chat", "feedback"} /\ inv[r].method = "OPTIONS") =>
                   /\ inv[r].pc = "done"
                   /\ inv[r].resp.status = 200
                   /\ inv[r].resp.error = "" /\ inv[r].resp.message = ""
                   /\ inv[r].resp.record = NoRow
                   /\ inv[r].resp.cors.allowOrigin = "*"
                   /\ inv[r].resp.cors = corsHeaders
                   /\ inv[r].ops = <<>>
                   /\ inv[r].storeError = ""
                   /\ inv[r].upstream = NoAnswer
             /\ (inv[r].method = "POST" /\ inv[r].pc = "done") =>
                   /\ inv[r].resp.status \in {200, 500}
                   /\ inv[r].resp.cors = corsHeaders
                   /\ inv[r].resp.cors # NoHeaders)
    /\ [][\A r \in Reqs :
             (inv'[r] # inv[r] /\ inv'[r].method = "OPTIONS") => UNCHANGED Tables]_vars

C20_Witness ==
    /\ ~openaiKey
    /\ \E r1, r2 \in Reqs :
          /\ inv[r1].fn = "chat" /\ inv[r1].method = "OPTIONS"
          /\ inv[r2].fn = "feedback" /\ inv[r2].method = "OPTIONS"
          /\ inv[r1].resp = Preflight
          /\ inv[r2].resp = Preflight
          /\ inv[UiReq].method = "POST"
          /\ inv[UiReq].resp.status = 500
          /\ inv[UiReq].resp.cors = corsHeaders

\* The entries of a list, or the rows of a session, that are the user's.
UserEntries(list) == Cardinality({i \in DOMAIN list : list[i].role = "user"})

\* C21 (as claimed): in the list the chat function holds for the model call
\* of a ChatInterface send, every utterance of the user appears once: the
\* list has as many user entries as the session has user message rows (each
\* utterance is one row, inserted before the call), so the utterance just
\* sent is not there both as a history entry and as the appended entry.
C21_UtteranceOnce ==
    (inv[UiReq].fn = "chat" /\ inv[UiReq].pc = "openai"
        /\ inv[UiReq].storeError = "") =>
            UserEntries(inv[UiReq].openaiMessages) =
                UserEntries(MessagesOf(inv[UiReq].session_id))

\* C22: every session whose status is completed has a feedback row that
\* references it; a session row changes only in the update step of a
\* feedback invocation for that session whose insert, the step before,
\* stored the row the invocation holds; and a session row is created with
\* status active.
C22_CompletedHasFeedback ==
    /\ [](\A s \in SessionIds :
             session[s].status = "completed" => FeedbackOf(s) # <<>>)
    /\ [][\A s \in SessionIds :
             session'[s] # session[s] =>
                 \/ ~session[s].exists /\ session'[s] = NewSession
                 \/ /\ session'[s].status = "completed"
                    /\ \E r \in Reqs :
                          /\ Steps(r, "feedback", "update")
                          /\ inv[r].session_id = s
                          /\ inv[r].ops[Len(inv[r].ops)] = "feedback_insert"
                          /\ inv[r].storeError = ""
                          /\ inv[r].feedback \in Range(FeedbackOf(s))]_vars

C22_Witness ==
    \E r \in Reqs :
        /\ Succeeded(r, "feedback")
        /\ session[inv[r].session_id].status = "completed"
        /\ FeedbackOf(inv[r].session_id) = <<inv[r].resp.record>>
        /\ \E r2 \in Reqs :
              /\ inv[r2].fn = "feedback"
              /\ inv[r2].session_id = inv[r].session_id
              /\ inv[r2].resp.error = StoreFailed

\* C25: a session row has status active or completed, never abandoned; a
\* completed session stays completed; and every session update that takes
\* effect, also on a session that is completed already, sets the end
\* timestamp to the time of the update, later than the one it replaces.
C25_StatusActiveThenCompleted ==
    /\ [](\A s \in SessionIds :
             session[s].exists => session[s].status \in {"active", "completed"})
    /\ [][\A s \in SessionIds :
             /\ session[s].exists => session'[s].exists
             /\ session[s].status = "completed" => session'[s].status = "completed"
             /\ \A r \in Reqs :
                   (Steps(r, "feedback", "update") /\ inv[r].session_id = s
                       /\ inv'[r].storeError = "") =>
                           /\ session'[s].status = "completed"
                           /\ session'[s].ended_at = now
                           /\ session'[s].ended_at > session[s].ended_at]_vars

C25_Witness ==
    \E r1, r2 \in Reqs :
        /\ r1 # r2
        /\ Succeeded(r1, "feedback") /\ Succeeded(r2, "feedback")
        /\ inv[r1].session_id = inv[r2].session_id
        /\ inv[r1].storeError = "" /\ inv[r2].storeError = ""
        /\ session[inv[r1].session_id].status = "completed"
        /\ session[inv[r1].session_id].ended_at = 2

\* The chat call of the send in progress failed in this step: the
\* fetch was rejected before a request reached the function, or the
\* function's response is not OK.
ChatCallFailed ==
    /\ ci' # ci
    /\ \/ ci.pc = "fetch" /\ inv'[UiReq] = inv[UiReq]
       \/ ci.pc = "await" /\ inv[UiReq].pc = "done" /\ inv[UiReq].resp.status # 200

\* C26: when the chat call of a non-initial send fails, the step inserts no
\* message row and the send is over (no assistant insert follows), the user
\* row of that send is still the last row of the store, and loading and the
\* typing indicator are false again.
C26_FailedCallKeepsUserRow ==
    [][(ChatCallFailed /\ ~ci.isInitial) =>
           /\ message' = message
           /\ message # <<>>
           /\ message[Len(message)] =
                  MessageRow(ci.sessionId, "user", Trim(ci.content))
           /\ ci'.pc = "ready"
           /\ ~ci'.loading /\ ~ci'.typingIndicator]_vars

C26_Witness ==
    /\ ci.pc = "await" /\ ~ci.isInitial /\ ci.loading
    /\ inv[UiReq].pc = "done" /\ inv[UiReq].resp.status = 500
    /\ message # <<>>
    /\ message[Len(message)] = MessageRow(ci.sessionId, "user", "hi")

\* The positions of sendMessage between its guard and its finally block.
InFlight == {"insert_user", "fetch", "await", "insert_assistant"}

C29_ChatAndFeedbackHaveSession ==
    /\ [](app.view \in {"chat", "feedback"} => app.currentSessionId # "")
    /\ [](ci.mounted =>
             app.view = "chat" /\ ci.sessionId = app.currentSessionId)
    /\ [](fd.mounted =>
             app.view = "feedback" /\ fd.sessionId = app.currentSessionId)
    /\ [][/\ ReturnHome =>
                app'.view = "landing" /\ app'.currentSessionId = ""
          /\ (app.currentSessionId # "" /\ app'.currentSessionId = "") =>
                /\ app'.view = "landing"
                /\ ReturnHome \/ SignOutSettled]_vars

C29_Witness ==
    /\ app.view = "chat" /\ app.currentSessionId = "s2"
    /\ app.signingOut
    /\ ci.mounted /\ ci.sessionId = "s2"
    /\ session["s1"].status = "completed"

\* The opening turn is requested: sendMessage('', true) passed its guard
\* and stands before the chat call, no user row to insert.
OpeningTurnRequested(c) == c.pc = "fetch" /\ c.isInitial /\ c.loading

\* C28: when the read of loadMessages has settled, the opening turn is
\* requested if and only if the read succeeded and returned no message;
\* otherwise the component is ready with initializing false and no chat
\* call is made. The opening turn inserts no user row, its chat call
\* carries is_initial = true and an empty user message, and whenever the
\* component is ready, initializing is false.
C28_OpeningTurnIffEmpty ==
    /\ [](ci.pc = "ready" => ~ci.initializing)
    /\ [][/\ (ci.pc = "loaded" /\ ci'.pc # "loaded") =>
                /\ OpeningTurnRequested(ci') <=>
                       (~ci.readError /\ ci.dataLength = 0)
                /\ ~OpeningTurnRequested(ci') =>
                       ci'.pc = "ready" /\ ~ci'.initializing
                /\ UNCHANGED <<message, inv>>
          /\ (ci.isInitial /\ message' # message) =>
                /\ ci.pc = "insert_assistant"
                /\ message' = Append(message,
                       MessageRow(ci.sessionId, "assistant", ci.reply))
          /\ (ci.isInitial /\ inv'[UiReq] # inv[UiReq]
                  /\ inv[UiReq].pc = "idle") =>
                /\ inv'[UiReq].fn = "chat"
                /\ inv'[UiReq].is_initial
                /\ inv'[UiReq].user_message = ""
                /\ inv'[UiReq].session_id = ci.sessionId
          /\ (inv'[UiReq] # inv[UiReq] /\ inv[UiReq].pc = "idle") =>
                ci.pc = "fetch"]_vars

\* A new session, read with no message, awaits the chat call of its
\* opening turn, after the first session was left with four messages.
C28_Witness ==
    /\ ci.mounted /\ ci.sessionId = "s2" /\ ci.initializing
    /\ ci.isInitial /\ ci.pc = "await"
    /\ inv[UiReq].is_initial /\ inv[UiReq].session_id = "s2"
    /\ MessagesOf("s2") = <<>>
    /\ Len(MessagesOf("s1")) = 4

\* C24 (as claimed): once a session's status is completed, no step adds a
\* message row to it: its messages are the same after every step.
C24_CompletedSessionClosed ==
    [][\A s \in SessionIds :
          session[s].status = "completed" => MessagesOf(s)' = MessagesOf(s)]_vars

\* C23 (as claimed): with the two functions called by ChatInterface and
\* FeedbackDisplay only, no session ever has more than one feedback row.
C23_AtMostOneFeedbackRow ==
    \A s \in SessionIds : Len(FeedbackOf(s)) <= 1

====
